---- MODULE Spec2Model ----
(***************************************************************************)
(* Model of the packaging descriptor of python-cts (setup.py).  The only   *)
(* operation of the repository is the setup() call; it is modelled as the  *)
(* install command a package manager runs with the arguments of that call: *)
(* requirements are resolved first, the scripts are then copied under      *)
(* their base name into the directory of executables, and a failed run     *)
(* leaves the environment as it was.                                       *)
(*                                                                         *)
(* Strings the installer takes apart (script paths, requirement strings,   *)
(* version strings, names) are sequences of one-character strings; the     *)
(* license and the trove classifiers are sequences of their blank-         *)
(* separated words.                                                        *)
(***************************************************************************)
EXTENDS Integers, Sequences, FiniteSets, TLC

VARIABLES pc, python, os, index, sitePackages, binDir, tree, dist, record

vars == <<pc, python, os, index, sitePackages, binDir, tree, dist, record>>

(* Highest version number of python-ctags the package index may offer. *)
MaxVersion == 2

----------------------------------------------------------------------------
(* The arguments of the setup() call.                                      *)

SetupArgsNoRequires ==
  [ name             |-> <<"p","y","t","h","o","n","-","c","t","s">>,
    version          |-> <<"0",".","1",".","7",".","3">>,
    description      |-> "Command line ctag search",
    url              |-> "https://github.com/Refefer/python-cts",
    license          |-> <<"LICENSE">>,
    scripts          |-> << <<"b","i","n","/","c","t","s">> >>,
    author           |-> "Andrew Stanton",
    author_email     |-> "Andrew Stanton",
    install_requires |-> << >>,
    classifiers      |-> <<
       <<"License","::","OSI","Approved","::","Apache","Software","License">>,
       <<"Programming","Language","::","Python","::","2.6">>,
       <<"Operating","System","::","OS","Independent">> >> ]

SetupArgsExtraScript ==
  [ SetupArgsNoRequires EXCEPT
      !.install_requires =
          << <<"p","y","t","h","o","n","-","c","t","a","g","s">> >>,
      !.scripts = << <<"b","i","n","/","c","t","s">>,
                     <<"b","i","n","/","c","t","s","-","g","e","n">> >> ]

SetupArgsPinned ==
  [ SetupArgsNoRequires EXCEPT
      !.install_requires =
          << <<"p","y","t","h","o","n","-","c","t","a","g","s",">","=","2">> >> ]

SetupArgsOtherVersion ==
  [ SetupArgsNoRequires EXCEPT
      !.install_requires =
          << <<"p","y","t","h","o","n","-","c","t","a","g","s">> >>,
      !.version = <<"0",".","1",".","7">> ]

SetupArgsPythonRequires ==
  [ name             |-> <<"p","y","t","h","o","n","-","c","t","s">>,
    version          |-> <<"0",".","1",".","7",".","3">>,
    description      |-> "Command line ctag search",
    url              |-> "https://github.com/Refefer/python-cts",
    license          |-> <<"LICENSE">>,
    scripts          |-> << <<"b","i","n","/","c","t","s">> >>,
    author           |-> "Andrew Stanton",
    author_email     |-> "Andrew Stanton",
    install_requires |-> << <<"p","y","t","h","o","n","-","c","t","a","g","s">> >>,
    python_requires  |-> <<"<","3">>,
    classifiers      |-> <<
       <<"License","::","OSI","Approved","::","Apache","Software","License">>,
       <<"Programming","Language","::","Python","::","2.6">>,
       <<"Operating","System","::","OS","Independent">> >> ]

SetupArgs ==
  [ name             |-> <<"p","y","t","h","o","n","-","c","t","s">>,
    version          |-> <<"0",".","1",".","7",".","3">>,
    description      |-> "Command line ctag search",
    url              |-> "https://github.com/Refefer/python-cts",
    license          |-> <<"LICENSE">>,
    scripts          |-> << <<"b","i","n","/","c","t","s">> >>,
    author           |-> "Andrew Stanton",
    author_email     |-> "Andrew Stanton",
    install_requires |-> << <<"p","y","t","h","o","n","-","c","t","a","g","s">> >>,
    classifiers      |-> <<
       <<"License","::","OSI","Approved","::","Apache","Software","License">>,
       <<"Programming","Language","::","Python","::","2.6">>,
       <<"Operating","System","::","OS","Independent">> >> ]

(* The distribution object before setup() has been called. *)
NoDist == [ name |-> << >> ]

----------------------------------------------------------------------------
(* String helpers of the installer.                                        *)

Range(s) == { s[i] : i \in 1..Len(s) }

Digits == <<"0","1","2","3","4","5","6","7","8","9">>

DigitVal(c) == (CHOOSE d \in 1..10 : Digits[d] = c) - 1

(* "0.1.7.3" -> <<0,1,7,3>> : split on the dots, read each part in base 10 *)
RECURSIVE ParseVersionFrom(_, _, _)
ParseVersionFrom(s, i, acc) ==
  IF i > Len(s) THEN <<acc>>
  ELSE IF s[i] = "." THEN <<acc>> \o ParseVersionFrom(s, i + 1, 0)
  ELSE ParseVersionFrom(s, i + 1, acc * 10 + DigitVal(s[i]))

ParseVersion(s) == ParseVersionFrom(s, 1, 0)

(* version order: component by component, a missing component counts as 0 *)
RECURSIVE VersionLess(_, _)
VersionLess(a, b) ==
  IF a = << >> /\ b = << >> THEN FALSE
  ELSE LET x  == IF a = << >> THEN 0 ELSE Head(a)
           y  == IF b = << >> THEN 0 ELSE Head(b)
           ta == IF a = << >> THEN << >> ELSE Tail(a)
           tb == IF b = << >> THEN << >> ELSE Tail(b)
       IN  IF x # y THEN x < y ELSE VersionLess(ta, tb)

VersionEq(a, b) == ~VersionLess(a, b) /\ ~VersionLess(b, a)

(* os.path.basename: what follows the last "/" *)
LastSlash(p) ==
  LET S == { i \in 1..Len(p) : p[i] = "/" }
  IN  IF S = {} THEN 0 ELSE CHOOSE i \in S : \A j \in S : j <= i

Basename(p) == SubSeq(p, LastSlash(p) + 1, Len(p))

SpecChars == {"<", ">", "=", "!", "~"}

(* a requirement string: the name, then an optional comparison and version *)
NameEnd(r) ==
  LET S == { i \in 1..Len(r) : r[i] \in SpecChars }
  IN  IF S = {} THEN Len(r) ELSE (CHOOSE i \in S : \A j \in S : i <= j) - 1

OpEnd(r) ==
  LET S == { i \in 1..Len(r) : i > NameEnd(r) /\ r[i] \in SpecChars }
  IN  IF S = {} THEN NameEnd(r) ELSE CHOOSE i \in S : \A j \in S : j <= i

ParseRequirement(r) ==
  [ name    |-> SubSeq(r, 1, NameEnd(r)),
    op      |-> SubSeq(r, NameEnd(r) + 1, OpEnd(r)),
    version |-> SubSeq(r, OpEnd(r) + 1, Len(r)) ]

(* does version v meet the comparison op against version w; no op: always *)
Compare(v, op, w) ==
  CASE op = << >>        -> TRUE
    [] op = <<"=","=">>  -> VersionEq(v, w)
    [] op = <<"!","=">>  -> ~VersionEq(v, w)
    [] op = <<">","=">>  -> ~VersionLess(v, w)
    [] op = <<"<","=">>  -> ~VersionLess(w, v)
    [] op = <<">">>      -> VersionLess(w, v)
    [] op = <<"<">>      -> VersionLess(v, w)
    [] OTHER             -> FALSE

Satisfies(v, req) ==
  Compare(v, req.op, IF req.op = << >> THEN << >> ELSE ParseVersion(req.version))

----------------------------------------------------------------------------
(* The environment the descriptor is installed into.                       *)

PythonCtags == <<"p","y","t","h","o","n","-","c","t","a","g","s">>

Interpreters == { <<2, 6>>, <<2, 7>>, <<3, 9>> }

Systems == { "linux", "darwin", "win32" }

Releases == { [name |-> PythonCtags, version |-> <<v>>] : v \in 1..MaxVersion }

OtherExecutables == { <<"c","t","a","g","s">> }

NoRecord == [ scripts |-> {}, dists |-> {}, requires |-> {} ]

----------------------------------------------------------------------------
(* What the installer derives from the arguments.                          *)

Requirements(d) ==
  { ParseRequirement(d.install_requires[i]) : i \in 1..Len(d.install_requires) }

ScriptNames(d) == { Basename(d.scripts[i]) : i \in 1..Len(d.scripts) }

ConsoleScripts(d) ==
  IF "entry_points" \in DOMAIN d THEN Range(d.entry_points) ELSE {}

(* python_requires is the only argument that restricts the interpreter;    *)
(* the classifiers are not read.                                           *)
EnvironmentAccepted(d) ==
  "python_requires" \in DOMAIN d
     => Satisfies(python, ParseRequirement(d.python_requires))

ScriptsPresent(d) == \A i \in 1..Len(d.scripts) : d.scripts[i] \in tree

Met(req) ==
  \E p \in sitePackages : p.name = req.name /\ Satisfies(p.version, req)

Candidates(req) ==
  { p \in index : p.name = req.name /\ Satisfies(p.version, req) }

Resolvable(req) == Met(req) \/ Candidates(req) # {}

Best(S) == CHOOSE p \in S : \A q \in S : ~VersionLess(p.version, q.version)

(* the releases a run has to add: the newest candidate of each requirement *)
(* that the installed distributions do not already meet                    *)
ToInstall(d) ==
  { Best(Candidates(req)) : req \in { r \in Requirements(d) : ~Met(r) } }

----------------------------------------------------------------------------

Init ==
  /\ pc = "ready"
  /\ python \in Interpreters
  /\ os \in Systems
  /\ index \in SUBSET Releases
  /\ sitePackages \in { {} } \cup { {p} : p \in Releases }
  /\ binDir \in SUBSET OtherExecutables
  /\ tree \in { {}, Range(SetupArgs.scripts) }
  /\ dist = NoDist
  /\ record = NoRecord

(* setup(...) run with the install command *)
Install ==
  LET d == SetupArgs IN
  /\ EnvironmentAccepted(d)
  /\ dist' = d
  /\ IF ScriptsPresent(d) /\ \A r \in Requirements(d) : Resolvable(r)
     THEN LET new == ToInstall(d)
              own == [name |-> d.name, version |-> ParseVersion(d.version)]
          IN /\ pc' = "installed"
             /\ sitePackages' =
                  { p \in sitePackages :
                      p.name \notin ({ q.name : q \in new } \cup {d.name}) }
                  \cup new \cup {own}
             /\ binDir' = binDir \cup ScriptNames(d) \cup ConsoleScripts(d)
             /\ record' = [ scripts  |-> ScriptNames(d) \cup ConsoleScripts(d),
                            dists    |-> new,
                            requires |-> { r.name : r \in Requirements(d) } ]
     ELSE /\ pc' = "failed"
          /\ record' = NoRecord
          /\ UNCHANGED <<sitePackages, binDir>>
  /\ UNCHANGED <<python, os, index, tree>>

Next == Install

Spec == Init /\ [][Next]_vars

----------------------------------------------------------------------------
(* Vocabulary of the properties.                                           *)

Cts == <<"c","t","s">>

Has(name) == \E p \in sitePackages : p.name = name

(* the "License :: ..." trove classifiers of a descriptor *)
LicenseClassifiers(d) ==
  { c \in Range(d.classifiers) : Len(c) >= 2 /\ c[1] = "License" /\ c[2] = "::" }

IdentifiesApache(words) == "Apache" \in Range(words)

----------------------------------------------------------------------------
(* C1: after a successful install the executable cts is in the directory   *)
(* of executables and the python-ctags distribution is installed; no       *)
(* installed state has cts on the path without the dependency.             *)
InstallPostcondition ==
  pc = "installed" => Cts \in binDir /\ Has(PythonCtags)

(* a successful run that had to fetch the dependency itself *)
InstallFetchedDependency ==
  /\ pc = "installed"
  /\ Cts \in binDir
  /\ \E p \in record.dists : p.name = PythonCtags

(* C2: the descriptor declares the single script bin/cts and no console    *)
(* entry point; a successful install adds exactly the executable cts.      *)
ExactlyOneScript ==
  pc # "ready" =>
    /\ dist.scripts = << <<"b","i","n","/","c","t","s">> >>
    /\ "entry_points" \notin DOMAIN dist
    /\ pc = "installed" => record.scripts = {Cts}
    /\ binDir \subseteq OtherExecutables \cup {Cts}

(* cts was added next to an executable that was already there *)
CtsAddedBesideOthers ==
  /\ pc = "installed"
  /\ record.scripts = {Cts}
  /\ binDir = OtherExecutables \cup {Cts}

(* C3: install_requires is exactly ['python-ctags'] without a version      *)
(* constraint: python-ctags is the only requirement resolved and every     *)
(* version of it, offered or already installed, satisfies it.              *)
OnlyUnpinnedCtags ==
  pc # "ready" =>
    /\ dist.install_requires = <<PythonCtags>>
    /\ \A r \in Requirements(dist) : r.name = PythonCtags /\ r.op = << >>
    /\ \A p \in index \cup sitePackages : \A r \in Requirements(dist) :
          p.name = r.name => Satisfies(p.version, r)
    /\ pc = "installed" => record.requires = {PythonCtags}
    /\ (ScriptsPresent(dist) /\ (index # {} \/ Has(PythonCtags)))
          => pc = "installed"

(* an older installed python-ctags was accepted although a newer is offered *)
OlderCtagsAccepted ==
  /\ pc = "installed"
  /\ [name |-> PythonCtags, version |-> <<1>>] \in sitePackages
  /\ [name |-> PythonCtags, version |-> <<2>>] \in index
  /\ record.dists = {}

(* C4: setup() is given the name python-cts and the version 0.1.7.3, and   *)
(* that is the distribution an install registers.                          *)
NameAndVersion ==
  pc # "ready" =>
    /\ dist.name = <<"p","y","t","h","o","n","-","c","t","s">>
    /\ dist.version = <<"0",".","1",".","7",".","3">>
    /\ pc = "installed" =>
         { p.version : p \in { q \in sitePackages : q.name = dist.name } }
            = { <<0, 1, 7, 3>> }

RegisteredAsPythonCts ==
  /\ pc = "installed"
  /\ [name |-> <<"p","y","t","h","o","n","-","c","t","s">>,
      version |-> <<0, 1, 7, 3>>] \in sitePackages

(* C5: every license-bearing field of the descriptor (the license argument *)
(* and the License classifier) identifies the Apache license, and the two  *)
(* agree.                                                                  *)
LicenseIsApache ==
  pc # "ready" =>
    /\ IdentifiesApache(dist.license)
    /\ LicenseClassifiers(dist) # {}
    /\ \A c \in LicenseClassifiers(dist) :
          /\ IdentifiesApache(c)
          /\ IdentifiesApache(c) <=> IdentifiesApache(dist.license)

(* C6: no python_requires or platform argument is passed: the install is   *)
(* enabled for every interpreter and operating system, it never fails for  *)
(* a reason other than a missing script file or an unresolvable            *)
(* requirement, and it yields the same script and requirement set.         *)
EnvironmentUnrestricted ==
  /\ ENABLED Install
  /\ pc # "ready" =>
       /\ "python_requires" \notin DOMAIN dist
       /\ "platforms" \notin DOMAIN dist
       /\ pc = "failed" =>
            \/ ~ScriptsPresent(dist)
            \/ \E r \in Requirements(dist) : ~Resolvable(r)
       /\ pc = "installed" =>
            /\ record.scripts = ScriptNames(dist)
            /\ record.requires = { r.name : r \in Requirements(dist) }
            /\ ScriptNames(dist) \subseteq binDir
            /\ \A n \in record.requires : Has(n)

(* installed on an interpreter and a system the classifiers do not name *)
InstalledOutsideClassifiers ==
  /\ pc = "installed"
  /\ python = <<3, 9>>
  /\ os = "win32"
  /\ Cts \in binDir

====
